---- MODULE Spec2Model ----
(***************************************************************************)
(* Model of post-processing/streamlit_post_processing.py: the session's    *)
(* configuration document (ConfigHandler), the working dataset             *)
(* (PostProcessing) and the edit handlers that Streamlit calls.            *)
(*                                                                         *)
(* config_handler.py and post_processing.py are imported by the module but *)
(* are not part of the sources at hand; the operators that stand for them  *)
(* (parse_*, remove_redundant_types, read_config, apply_df_types,          *)
(* val_as_dtype, val_as_col_dtype, run_post_processing) follow the design  *)
(* document.                                                               *)
(***************************************************************************)
EXTENDS Integers, Sequences, FiniteSets, TLC

\* ---------------------------------------------------------------------
\* Bounds of the model
\* ---------------------------------------------------------------------
\* most clauses held by the three filter lists together
MaxClauses == 2

\* ---------------------------------------------------------------------
\* Drop-down lists and type mappings (module level of the source)
\* ---------------------------------------------------------------------
operators == <<"==", "!=", "<", ">", "<=", ">=">>
column_types == <<"datetime", "int", "float", "str">>
filter_types == <<"and", "or", "series">>

type_lookup == [d \in {"datetime64[ns]", "float64", "Int64", "object"} |->
                  CASE d = "datetime64[ns]" -> "datetime"
                    [] d = "float64" -> "float"
                    [] d = "Int64" -> "int"
                    [] OTHER -> "str"]

dtype_lookup == [t \in {"datetime", "float", "int", "str"} |->
                   CASE t = "datetime" -> "datetime64[ns]"
                     [] t = "float" -> "float64"
                     [] t = "int" -> "Int64"
                     [] OTHER -> "object"]

\* Python's None, and the text str(None)
None == "<None>"
StrNone == "None"
\* None where the other values are list indices (which count from 0)
NoSeries == -1
\* outcome of a cast that raises
Fail == "<raise>"

Range(s) == {s[i] : i \in 1..Len(s)}

\* ---------------------------------------------------------------------
\* Values.  A value is known by its text (what str() gives) and by the
\* dtype it is held in.
\* ---------------------------------------------------------------------
IntTexts == {"1", "2"}
FloatTexts == {"1.0", "2.0"}

ToFloatText(t) == CASE t = "1" -> "1.0" [] t = "2" -> "2.0" [] OTHER -> t
ToIntText(t) == CASE t = "1.0" -> "1" [] t = "2.0" -> "2" [] OTHER -> t

\* text of the value obtained by casting the value with text t held as
\* dtype src to dtype dst, or Fail when the cast raises
Cast(src, t, dst) ==
    CASE dst = "object" -> t
      [] dst = "float64" ->
            IF src \in {"Int64", "float64"} THEN ToFloatText(t)
            ELSE IF src = "object" /\ t \in IntTexts \cup FloatTexts
                 THEN ToFloatText(t) ELSE Fail
      [] dst = "Int64" ->
            IF src = "Int64" THEN t
            ELSE IF src = "float64" THEN ToIntText(t)
            ELSE IF src = "object" /\ t \in IntTexts THEN t ELSE Fail
      [] OTHER -> IF src = "datetime64[ns]" THEN t ELSE Fail

\* ---------------------------------------------------------------------
\* The dataset: df.columns and, per column, its dtype and its row values
\* ---------------------------------------------------------------------
Columns == <<"a", "b">>
Cols == Range(Columns)
Rows == 1..2

LoadedDf == [c \in Cols |->
               IF c = "a" THEN [dtype |-> "Int64", vals |-> <<"1", "2">>]
               ELSE [dtype |-> "object", vals |-> <<"x", "y">>]]

\* PostProcessing.val_as_dtype(val, dtype).iloc[0], as text
val_as_dtype(src, t, dtype) == Cast(src, t, dtype)

\* PostProcessing.val_as_col_dtype(val, col).iloc[0], as text: the value
\* is always a stored string here
val_as_col_dtype(df, t, col) == Cast("object", t, df[col].dtype)

\* one column cast to dtype (Series.astype); CanCast is FALSE when a value
\* of the column cannot be cast and astype raises
CanCast(column, dtype) ==
    \A r \in Rows : Cast(column.dtype, column.vals[r], dtype) # Fail

AsType(column, dtype) ==
    [dtype |-> dtype,
     vals |-> [r \in Rows |-> Cast(column.dtype, column.vals[r], dtype)]]

\* PostProcessing.apply_df_types(all_columns, column_types): in place,
\* column by column, stopping at the first column that raises
RECURSIVE ApplyFrom(_, _, _, _)
ApplyFrom(df, all_columns, types, k) ==
    IF k > Len(all_columns) THEN [df |-> df, ok |-> TRUE]
    ELSE LET col == all_columns[k] IN
         IF col \notin DOMAIN types \/ col \notin Cols
         THEN [df |-> df, ok |-> FALSE]
         ELSE IF ~CanCast(df[col], dtype_lookup[types[col]])
              THEN [df |-> df, ok |-> FALSE]
              ELSE ApplyFrom([df EXCEPT ![col] = AsType(@, dtype_lookup[types[col]])],
                             all_columns, types, k + 1)

apply_df_types(df, all_columns, types) == ApplyFrom(df, all_columns, types, 1)

\* ---------------------------------------------------------------------
\* ConfigHandler
\* ---------------------------------------------------------------------
EmptyMap == [k \in {} |-> None]

\* dict assignment d[k] = v
Put(d, k, v) == [j \in DOMAIN d \cup {k} |-> IF j = k THEN v ELSE d[j]]

\* dict.get(k)
Get(d, k) == IF k \in DOMAIN d THEN d[k] ELSE None

\* list(dict.fromkeys(s)): first occurrences, in order
RECURSIVE Dedupe(_)
Dedupe(s) ==
    IF s = <<>> THEN <<>>
    ELSE LET front == Dedupe(SubSeq(s, 1, Len(s) - 1)) IN
         IF s[Len(s)] \in Range(front) THEN front ELSE Append(front, s[Len(s)])

NotNone(s) == SelectSeq(s, LAMBDA e : e # None)

FirstOf(s) == [i \in 1..Len(s) |-> s[i][1]]

\* ConfigHandler.from_template(): every field present but empty
from_template ==
    [x_axis |-> [value |-> None, units |-> [custom |-> None]],
     y_axis |-> [value |-> None, units |-> [custom |-> None],
                 scaling |-> [custom |-> None]],
     filters |-> [and |-> <<>>, or |-> <<>>],
     series |-> <<>>,
     column_types |-> EmptyMap,
     extra_columns |-> <<>>,
     and_filters |-> <<>>,
     or_filters |-> <<>>,
     series_filters |-> <<>>,
     scaling_column |-> None,
     scaling_custom |-> None,
     plot_columns |-> <<>>,
     all_columns |-> <<>>]

\* ConfigHandler.parse_filters()
parse_filters(c) ==
    [c EXCEPT !.and_filters = c.filters["and"],
              !.or_filters = c.filters["or"],
              !.series_filters =
                  [i \in 1..Len(c.series) |-> <<c.series[i][1], "==", c.series[i][2]>>]]

\* ConfigHandler.parse_scaling()
parse_scaling(c) ==
    [c EXCEPT !.scaling_column =
                  IF "column" \in DOMAIN c.y_axis.scaling
                  THEN c.y_axis.scaling["column"].name ELSE None,
              !.scaling_custom = Get(c.y_axis.scaling, "custom")]

\* the columns the document refers to: axis values, units columns, series,
\* filter columns, scaling column, extra columns
PlotColumns(c) ==
    Dedupe(NotNone(<<c.x_axis.value, Get(c.x_axis.units, "column"),
                     c.y_axis.value, Get(c.y_axis.units, "column")>>
                   \o FirstOf(c.series)))

AllColumns(c) ==
    Dedupe(NotNone(PlotColumns(c) \o FirstOf(c.and_filters) \o FirstOf(c.or_filters)
                   \o <<c.scaling_column>> \o c.extra_columns))

\* ConfigHandler.parse_columns(): recompute the column lists and give
\* every column without a declared type the type of its dataset column
parse_columns(c, df) ==
    LET all == AllColumns(c) IN
    [c EXCEPT !.plot_columns = PlotColumns(c),
              !.all_columns = all,
              !.column_types =
                  [k \in DOMAIN c.column_types \cup Range(all) |->
                     IF k \in DOMAIN c.column_types THEN c.column_types[k]
                     ELSE type_lookup[df[k].dtype]]]

\* ConfigHandler.remove_redundant_types()
remove_redundant_types(c) ==
    [c EXCEPT !.column_types =
                  [k \in DOMAIN c.column_types \cap Range(c.all_columns) |->
                     c.column_types[k]]]

\* the list object a filter kind names: config.series or config.filters[key]
ListOf(c, key) == IF key = "series" THEN c.series ELSE c.filters[key]

\* in-place change of that list object; and_filters / or_filters are the
\* same objects as filters["and"] / filters["or"], series_filters is a copy
SetList(c, key, L) ==
    CASE key = "series" -> [c EXCEPT !.series = L]
      [] key = "and" -> [c EXCEPT !.filters["and"] = L, !.and_filters = L]
      [] OTHER -> [c EXCEPT !.filters["or"] = L, !.or_filters = L]

\* read_config(config.to_dict()): TRUE when the document validates
WellFormed(f) == Len(f) = 3 /\ f[1] \in Cols /\ f[2] \in Range(operators)

read_config(c) ==
    /\ c.x_axis.value \in Cols
    /\ c.y_axis.value \in Cols
    /\ \A u \in {Get(c.x_axis.units, "column"), Get(c.y_axis.units, "column"),
                 c.scaling_column} \cup Range(c.extra_columns) : u \in Cols \cup {None}
    /\ \A f \in Range(c.filters["and"]) \cup Range(c.filters["or"]) : WellFormed(f)
    /\ \A f \in Range(c.series) : Len(f) = 2 /\ f[1] \in Cols
    /\ DOMAIN c.column_types \subseteq Cols
    /\ \A k \in DOMAIN c.column_types : c.column_types[k] \in Range(column_types)

\* ---------------------------------------------------------------------
\* PostProcessing: mask, scaling and the run
\* ---------------------------------------------------------------------
Rank(t) == CASE t \in {"1", "1.0"} -> 1
             [] t \in {"2", "2.0"} -> 2
             [] t = "x" -> 11
             [] t = "y" -> 12
             [] OTHER -> 20

Compare(l, op, r) ==
    CASE op = "==" -> l = r
      [] op = "!=" -> l # r
      [] op = "<" -> Rank(l) < Rank(r)
      [] op = ">" -> Rank(l) > Rank(r)
      [] op = "<=" -> Rank(l) <= Rank(r)
      [] OTHER -> Rank(l) >= Rank(r)

\* a clause can be evaluated when its stored string casts to the dtype of
\* its column
Evaluable(df, f) == val_as_col_dtype(df, f[3], f[1]) # Fail

Passes(df, f, r) == Compare(df[f[1]].vals[r], f[2], val_as_col_dtype(df, f[3], f[1]))

\* the row mask: AND-result /\ OR-result /\ series-result, an empty list
\* imposing no restriction
FilterMask(df, c) ==
    [r \in Rows |->
        /\ \A i \in 1..Len(c.and_filters) : Passes(df, c.and_filters[i], r)
        /\ (c.or_filters = <<>> \/ \E i \in 1..Len(c.or_filters) : Passes(df, c.or_filters[i], r))
        /\ (c.series_filters = <<>>
              \/ \E i \in 1..Len(c.series_filters) : Passes(df, c.series_filters[i], r))]

\* rows the scaling value is looked up in
ScalingRows(df, mask, c) ==
    LET spec == c.y_axis.scaling["column"] IN
    {r \in Rows :
        /\ mask[r]
        /\ spec.series # NoSeries =>
              /\ spec.series + 1 \in 1..Len(c.series_filters)
              /\ Passes(df, c.series_filters[spec.series + 1], r)
        /\ spec.x_value # None => df[c.x_axis.value].vals[r] = spec.x_value}

ScalingPool(df, mask, c) ==
    {df[c.y_axis.scaling["column"].name].vals[r] : r \in ScalingRows(df, mask, c)}

\* the scale factor, or Fail when it cannot be resolved
resolve(df, mask, c) ==
    IF "custom" \in DOMAIN c.y_axis.scaling
    THEN c.y_axis.scaling["custom"]
    ELSE IF /\ c.y_axis.scaling["column"].series # NoSeries
            /\ c.y_axis.scaling["column"].series + 1 \notin 1..Len(c.series_filters)
         THEN Fail
         ELSE IF Cardinality(ScalingPool(df, mask, c)) # 1 THEN Fail
              ELSE CHOOSE v \in ScalingPool(df, mask, c) : TRUE

\* PostProcessing.run_post_processing(config): coerce, mask, scale, plot
run_post_processing(p, c) ==
    LET typed == apply_df_types(p.df, c.all_columns, c.column_types)
        p1 == [p EXCEPT !.df = typed.df]
        clauses == Range(c.and_filters) \cup Range(c.or_filters) \cup Range(c.series_filters)
        p2 == [p1 EXCEPT !.mask = FilterMask(p1.df, c)]
    IN  IF ~typed.ok THEN [post |-> p1, ok |-> FALSE]
        ELSE IF \E f \in clauses : ~Evaluable(p1.df, f) THEN [post |-> p1, ok |-> FALSE]
        ELSE IF resolve(p2.df, p2.mask, c) = Fail THEN [post |-> p2, ok |-> FALSE]
        ELSE [post |-> [p2 EXCEPT !.scale = resolve(p2.df, p2.mask, c), !.plot = "plot"],
              ok |-> TRUE]

\* ---------------------------------------------------------------------
\* Session state and handlers.  A handler takes the session's config and
\* post and gives their values when it returns, with what it reported
\* through st.exception / st.warning.
\* ---------------------------------------------------------------------
\* config, post: st.session_state.config and st.session_state.post
\* state:        the axis widgets of st.session_state as update_axes last read them
\* reports:      what the last handler passed to st.exception / st.warning
\* handler:      the last handler called
VARIABLES config, post, state, reports, handler

vars == <<config, post, state, reports, handler>>

Out(c, p, rep) == [config |-> c, post |-> p, reports |-> rep]

\* a call of st.exception / st.warning, named by the source line making it
Exception(line) == [st |-> "exception", line |-> line]
Warning(line) == [st |-> "warning", line |-> line]

\* update_types()
update_types(c, p, rep) ==
    LET c1 == remove_redundant_types(parse_columns(c, p.df))
        typed == apply_df_types(p.df, c1.all_columns, c1.column_types)
    IN  IF typed.ok
        THEN Out(c1, [p EXCEPT !.df = typed.df], rep)
        ELSE Out(c1, [p EXCEPT !.df = typed.df, !.plot = None], Append(rep, Exception(355)))

\* update_filter(key), state[key] being the list sel
update_filter(c, p, rep, key, sel) ==
    LET c1 == IF key = "series" THEN [c EXCEPT !.series = sel]
              ELSE [c EXCEPT !.filters[key] = sel]
    IN  update_types(parse_filters(c1), p, rep)

\* Python's "not v" for a text input
Blank(v) == v \in {None, ""}

\* "not custom and column", with the column winning over a custom value
ByColumnAlways(custom, column) == column # None

\* "not custom and column": TRUE when the units or the scaling are given by
\* a column
ByColumn(custom, column) == Blank(custom) /\ column # None

\* axis["units"] as it would be with a picked units column kept whatever
\* the custom units are
UnitsKeepColumn(custom, column) ==
    IF column # None THEN [column |-> column] ELSE [custom |-> custom]

\* axis["units"] for the two units widgets
Units(custom, column) ==
    IF ByColumn(custom, column) THEN [column |-> column] ELSE [custom |-> custom]

\* list.index of the series picked in the scaling series selectbox, where
\* pick is its position in config.series_filters, both counting from 0
SeriesIndex(c, pick) ==
    IF pick = NoSeries THEN NoSeries
    ELSE (CHOOSE i \in 1..Len(c.series_filters) :
             /\ c.series_filters[i] = c.series_filters[pick + 1]
             /\ \A j \in 1..(i - 1) : c.series_filters[j] # c.series_filters[pick + 1]) - 1

\* y_axis["scaling"] for the scaling widgets
Scaling(c, w) ==
    IF ByColumn(w.y_scaling_custom, w.y_scaling_column)
    THEN [column |-> [name |-> w.y_scaling_column,
                      series |-> SeriesIndex(c, w.y_scaling_series),
                      x_value |-> IF w.y_scaling_x = None THEN StrNone ELSE w.y_scaling_x]]
    ELSE [custom |-> IF Blank(w.y_scaling_custom) THEN None ELSE w.y_scaling_custom]

\* update_axes(), w holding the session-state values of the axis widgets
update_axes(c, p, w) ==
    LET t1 == Put(Put(c.column_types, w.x_column, w.x_type), w.y_column, w.y_type)
        t2 == IF ByColumn(w.x_units_custom, w.x_units_column)
              THEN Put(t1, w.x_units_column, "str") ELSE t1
        t3 == IF ByColumn(w.y_units_custom, w.y_units_column)
              THEN Put(t2, w.y_units_column, "str") ELSE t2
        t4 == IF ByColumn(w.y_scaling_custom, w.y_scaling_column)
              THEN Put(t3, w.y_scaling_column, w.y_scaling_type) ELSE t3
        c1 == [c EXCEPT
                 !.x_axis.value = w.x_column,
                 !.y_axis.value = w.y_column,
                 !.column_types = t4,
                 !.x_axis.units = Units(w.x_units_custom, w.x_units_column),
                 !.y_axis.units = Units(w.y_units_custom, w.y_units_column),
                 !.y_axis.scaling = Scaling(c, w)]
    IN  update_types(parse_scaling(c1), p, <<>>)

\* list.index(f): the first position holding a clause equal to f
IndexOf(L, f) == CHOOSE i \in 1..Len(L) : L[i] = f /\ \A j \in 1..(i - 1) : L[j] # f

\* list.remove(f): drop the first clause equal to f
Remove(L, f) ==
    LET i == IndexOf(L, f) IN SubSeq(L, 1, i - 1) \o SubSeq(L, i + 1, Len(L))

\* the loop of add_filter over state[key], from its k-th clause on: every
\* clause on column col has its value re-interpreted as the dtype of the
\* dataset column; ok is FALSE when val_as_col_dtype raised, the list then
\* being as the loop left it
RECURSIVE Retype(_, _, _, _)
Retype(L, k, col, df) ==
    IF k > Len(L) THEN [list |-> L, ok |-> TRUE]
    ELSE IF L[k][1] # col THEN Retype(L, k + 1, col, df)
    ELSE LET i == IndexOf(L, L[k])
             filter_value == val_as_col_dtype(df, L[i][Len(L[i])], col)
         IN  IF filter_value = Fail THEN [list |-> L, ok |-> FALSE]
             ELSE Retype([L EXCEPT ![i][Len(L[i])] = filter_value], k + 1, col, df)

\* the branch of add_filter that adds a filter not yet in state[key]:
\* append, record the column type, update_filter, re-cast the clauses on
\* the column; when that raises, remove the filter and update_filter again
add_new_filter(c, p, rep, key, ftype, filter) ==
    LET col == filter[1]
        added == Append(ListOf(c, key), filter)
        c1 == [c EXCEPT !.column_types = Put(@, col, ftype)]
        u == update_filter(c1, p, rep, key, added)
        loop == Retype(added, 1, col, u.post.df)
    IN  IF loop.ok
        THEN Out(SetList(u.config, key, loop.list), u.post, u.reports)
        ELSE update_filter(SetList(u.config, key, loop.list),
                           [u.post EXCEPT !.plot = None],
                           Append(u.reports, Exception(514)),
                           key,
                           Remove(loop.list, loop.list[Len(loop.list)]))

\* add_filter as it would be with the column type recorded before the
\* test for a filter already present
add_filter_types_first(c, p, key, ftype, col, op, src, val) ==
    IF val = None
    THEN Out(c, p, <<Warning(527)>>)
    ELSE
    LET typed == val_as_dtype(src, val, dtype_lookup[ftype])
        rep1 == IF typed = Fail THEN <<Exception(486)>> ELSE <<>>
        text == IF typed = Fail THEN val ELSE typed
        filter == IF key = "series" THEN <<col, text>> ELSE <<col, op, text>>
    IN  IF filter \in Range(ListOf(c, key))
        THEN Out([c EXCEPT !.column_types = Put(@, col, ftype)], p, Append(rep1, Warning(523)))
        ELSE add_new_filter(c, p, rep1, key, ftype, filter)

\* add_filter as it would be with the operator kept in a series clause
add_filter_keeps_operator(c, p, key, ftype, col, op, src, val) ==
    IF val = None
    THEN Out(c, p, <<Warning(527)>>)
    ELSE
    LET typed == val_as_dtype(src, val, dtype_lookup[ftype])
        rep1 == IF typed = Fail THEN <<Exception(486)>> ELSE <<>>
        text == IF typed = Fail THEN val ELSE typed
        filter == <<col, op, text>>
    IN  IF filter \in Range(ListOf(c, key))
        THEN Out(c, p, Append(rep1, Warning(523)))
        ELSE add_new_filter(c, p, rep1, key, ftype, filter)

\* add_filter as it would be with a filter without a value warned about
\* and added all the same, its value being str(None)
add_filter_warns_and_adds(c, p, key, ftype, col, op, src, val) ==
    LET typed == IF val = None THEN StrNone ELSE val_as_dtype(src, val, dtype_lookup[ftype])
        rep1 == IF val = None THEN <<Warning(527)>>
                ELSE IF typed = Fail THEN <<Exception(486)>> ELSE <<>>
        text == IF typed = Fail THEN val ELSE typed
        filter == IF key = "series" THEN <<col, text>> ELSE <<col, op, text>>
    IN  IF filter \in Range(ListOf(c, key))
        THEN Out(c, p, Append(rep1, Warning(523)))
        ELSE add_new_filter(c, p, rep1, key, ftype, filter)

\* add_filter(filter) with filter = [col, op, val]; key is
\* state.filter_type and ftype is state.filter_column_type; val is the text
\* of the chosen value and src the dtype it is held in (None: no value)
add_filter(c, p, key, ftype, col, op, src, val) ==
    IF val = None
    THEN Out(c, p, <<Warning(527)>>)
    ELSE
    LET typed == val_as_dtype(src, val, dtype_lookup[ftype])
        rep1 == IF typed = Fail THEN <<Exception(486)>> ELSE <<>>
        text == IF typed = Fail THEN val ELSE typed
        filter == IF key = "series" THEN <<col, text>> ELSE <<col, op, text>>
    IN  IF filter \in Range(ListOf(c, key))
        THEN Out(c, p, Append(rep1, Warning(523)))
        ELSE add_new_filter(c, p, rep1, key, ftype, filter)

\* update_extra_column(), state.extra_columns being sel
update_extra_column(c, p, sel) == Out([c EXCEPT !.extra_columns = sel], p, <<>>)

\* add_extra_column as it would be without the call of parse_columns
add_extra_column_unparsed(c, p, col) ==
    LET shown == c.plot_columns \o c.extra_columns \o <<col>>
        rep == IF Len(shown) # Cardinality(Range(shown)) THEN <<Warning(581)>> ELSE <<>>
    IN  IF col \notin Range(c.extra_columns)
        THEN Out([c EXCEPT !.extra_columns = Append(@, col)], p, rep)
        ELSE Out(c, p, rep)

\* add_extra_column(), state.extra_col being col
add_extra_column(c, p, col) ==
    LET shown == c.plot_columns \o c.extra_columns \o <<col>>
        rep == IF Len(shown) # Cardinality(Range(shown)) THEN <<Warning(581)>> ELSE <<>>
    IN  IF col \notin Range(c.extra_columns)
        THEN Out(parse_columns([c EXCEPT !.extra_columns = Append(@, col)], p.df), p, rep)
        ELSE Out(c, p, rep)

\* rerun_post_processing as it would be with the dataset reset before the
\* config is validated
rerun_reset_first(c, p) ==
    IF ~read_config(c)
    THEN Out(c, [p EXCEPT !.df = p.original_df, !.plot = None], <<Exception(607)>>)
    ELSE LET run == run_post_processing([p EXCEPT !.df = p.original_df], c) IN
         IF run.ok THEN Out(c, run.post, <<>>)
         ELSE Out(c, [run.post EXCEPT !.plot = None], <<Exception(607)>>)

\* rerun_post_processing as it would be without the reset of the dataset
\* to its original state
rerun_without_reset(c, p) ==
    IF ~read_config(c)
    THEN Out(c, [p EXCEPT !.plot = None], <<Exception(607)>>)
    ELSE LET run == run_post_processing(p, c) IN
         IF run.ok THEN Out(c, run.post, <<>>)
         ELSE Out(c, [run.post EXCEPT !.plot = None], <<Exception(607)>>)

\* rerun_post_processing()
rerun_post_processing(c, p) ==
    IF ~read_config(c)
    THEN Out(c, [p EXCEPT !.plot = None], <<Exception(607)>>)
    ELSE LET run == run_post_processing([p EXCEPT !.df = p.original_df], c) IN
         IF run.ok THEN Out(c, run.post, <<>>)
         ELSE Out(c, [run.post EXCEPT !.plot = None], <<Exception(607)>>)

\* validate_download_config()
validate_download_config(c, p) ==
    IF read_config(c) THEN Out(c, p, <<>>)
    ELSE Out(c, [p EXCEPT !.plot = None], <<Warning(621)>>)

\* ---------------------------------------------------------------------
\* Configuration files, the start of the script and the upload of a config
\* ---------------------------------------------------------------------
\* an exception e shown by st.exception at a source line
Raised(line, e) == [st |-> "exception", line |-> line, e |-> e]

\* st.session_state before update_ui has stored a post and a config in it
Unset == [unset |-> TRUE]

\* a document that validates and runs
DocValid ==
    [from_template EXCEPT !.x_axis.value = "a", !.y_axis.value = "b",
                          !.column_types = [k \in Cols |-> IF k = "a" THEN "float" ELSE "str"]]

\* a document that validates, with a type that column b cannot take
DocUntypable ==
    [from_template EXCEPT !.x_axis.value = "a", !.y_axis.value = "b",
                          !.column_types = [k \in Cols |-> IF k = "a" THEN "int" ELSE "float"]]

\* a document without a y-axis value, which does not validate
DocInvalid ==
    [from_template EXCEPT !.x_axis.value = "a",
                          !.column_types = [k \in {"a"} |-> "str"]]

\* a document that is not a mapping of the config fields
DocBroken == [broken |-> TRUE]

Files == {"valid.yaml", "untypable.yaml", "invalid.yaml", "broken.yaml", "missing.yaml"}

\* load_config(path): the document of a file that can be read
load_config(f) ==
    [ok |-> f # "missing.yaml",
     dict |-> CASE f = "valid.yaml" -> DocValid
                [] f = "untypable.yaml" -> DocUntypable
                [] f = "invalid.yaml" -> DocInvalid
                [] OTHER -> DocBroken]

\* ConfigHandler(config_dict, template): the parsed document; when template
\* is not set the document is validated first
ConfigHandler(d, template) ==
    IF d = DocBroken THEN [ok |-> FALSE, e |-> "ConfigHandler"]
    ELSE LET c == parse_columns(parse_scaling(parse_filters(d)), LoadedDf) IN
         IF ~template /\ ~read_config(c) THEN [ok |-> FALSE, e |-> "read_config"]
         ELSE [ok |-> TRUE, config |-> c]

\* ConfigHandler.from_path(config_path, template)
from_path(f, template) ==
    IF load_config(f).ok THEN ConfigHandler(load_config(f).dict, template)
    ELSE [ok |-> FALSE, e |-> "load_config"]

\* main as it would be with post-processing run on the config that was
\* filled from the invalid document
main_runs_filled(f, p) ==
    IF f = None THEN [post |-> p, config |-> from_template, err |-> None]
    ELSE LET loaded == from_path(f, FALSE)
             run == run_post_processing(p, loaded.config)
             filled == from_path(f, TRUE)
         IN  IF loaded.ok /\ run.ok
             THEN [post |-> run.post, config |-> loaded.config, err |-> None]
             ELSE [post |-> IF filled.ok THEN run_post_processing(p, filled.config).post
                            ELSE p,
                   config |-> IF filled.ok THEN filled.config
                              ELSE IF loaded.ok THEN loaded.config ELSE from_template,
                   err |-> IF loaded.ok THEN "run_post_processing" ELSE loaded.e]

\* main() up to its call of update_ui, for args.config_path = f and the
\* PostProcessing p of the logs: the post, config and e it passes
main(f, p) ==
    IF f = None THEN [post |-> p, config |-> from_template, err |-> None]
    ELSE LET loaded == from_path(f, FALSE)
             run == run_post_processing(p, loaded.config)
             filled == from_path(f, TRUE)
         IN  IF loaded.ok /\ run.ok
             THEN [post |-> run.post, config |-> loaded.config, err |-> None]
             ELSE [post |-> IF loaded.ok THEN run.post ELSE p,
                   config |-> IF filled.ok THEN filled.config
                              ELSE IF loaded.ok THEN loaded.config ELSE from_template,
                   err |-> IF loaded.ok THEN "run_post_processing" ELSE loaded.e]

\* update_ui as it would be without the test for a post in the session
update_ui_always_stores(c, p, post_arg, config_arg, e) ==
    Out(config_arg, post_arg, IF e # None THEN <<Raised(42, e)>> ELSE <<>>)

\* update_ui(post, config, e) down to the reading of the session's post
\* and config, c and p being the session's config and post
update_ui(c, p, post_arg, config_arg, e) ==
    IF p = Unset
    THEN Out(config_arg, post_arg, IF e # None THEN <<Raised(42, e)>> ELSE <<>>)
    ELSE Out(c, p, <<>>)

\* update_config(), state.uploaded_config being the file u
update_config(c, p, u) ==
    IF u = None THEN Out(c, p, <<>>)
    ELSE LET loaded == load_config(u)
             made == ConfigHandler(loaded.dict, FALSE)
             typed == apply_df_types(p.df, made.config.all_columns, made.config.column_types)
             filled == ConfigHandler(loaded.dict, TRUE)
         IN  IF ~loaded.ok
             THEN Out(c, [p EXCEPT !.plot = None],
                      <<Raised(120, "load_config"), Raised(126, "NameError")>>)
             ELSE IF made.ok /\ typed.ok
             THEN Out(made.config, [p EXCEPT !.df = typed.df], <<>>)
             ELSE LET p1 == [p EXCEPT !.df = IF made.ok THEN typed.df ELSE @,
                                      !.plot = None]
                      e == IF made.ok THEN "apply_df_types" ELSE made.e
                  IN  IF filled.ok THEN Out(filled.config, p1, <<Raised(120, e)>>)
                      ELSE Out(IF made.ok THEN made.config ELSE c, p1,
                               <<Raised(120, e), Raised(126, filled.e)>>)

\* ---------------------------------------------------------------------
\* What the user can enter
\* ---------------------------------------------------------------------
InputTypes == {"float", "str"}
InputTexts == {"1", "x"}
InputOps == {operators[1]}
InputUnits == {None, "u"}
InputScales == {None, "2"}
UnitsColumns == {None, "b"}
ScalingColumns == {None, "a"}

\* the series a scaling series can be picked from, as list indices
SeriesChoices(c) ==
    {NoSeries} \cup {i - 1 : i \in 1..Len(c.series_filters)}

\* the x-axis values a scaling x-value can be picked from
XChoices(c, p) ==
    {None} \cup (IF c.x_axis.value = None THEN {}
                 ELSE {p.df[c.x_axis.value].vals[r] : r \in {q \in Rows : p.mask[q]}})

\* the widgets of axis_select, units_select and scaling_select as they show
\* the current document
Shown(c, p) ==
    [x_column |-> c.x_axis.value,
     x_type |-> IF c.x_axis.value # None THEN type_lookup[p.df[c.x_axis.value].dtype]
                ELSE column_types[1],
     x_units_column |-> Get(c.x_axis.units, "column"),
     x_units_custom |-> Get(c.x_axis.units, "custom"),
     y_column |-> c.y_axis.value,
     y_type |-> IF c.y_axis.value # None THEN type_lookup[p.df[c.y_axis.value].dtype]
                ELSE column_types[1],
     y_units_column |-> Get(c.y_axis.units, "column"),
     y_units_custom |-> Get(c.y_axis.units, "custom"),
     y_scaling_column |-> c.scaling_column,
     y_scaling_type |-> IF c.scaling_column # None
                        THEN type_lookup[p.df[c.scaling_column].dtype]
                        ELSE column_types[1],
     y_scaling_series |-> IF "column" \in DOMAIN c.y_axis.scaling
                          THEN c.y_axis.scaling["column"].series ELSE NoSeries,
     y_scaling_x |-> IF "column" \in DOMAIN c.y_axis.scaling
                        /\ c.y_axis.scaling["column"].x_value \in XChoices(c, p)
                     THEN c.y_axis.scaling["column"].x_value ELSE None,
     y_scaling_custom |-> c.scaling_custom]

\* the widgets as records of singleton choices, and the widget values that
\* a record of choices D allows
Fixed(w) == [k \in DOMAIN w |-> {w[k]}]

Widgets(D) ==
    [x_column : D.x_column, x_type : D.x_type,
     x_units_column : D.x_units_column, x_units_custom : D.x_units_custom,
     y_column : D.y_column, y_type : D.y_type,
     y_units_column : D.y_units_column, y_units_custom : D.y_units_custom,
     y_scaling_column : D.y_scaling_column, y_scaling_type : D.y_scaling_type,
     y_scaling_series : D.y_scaling_series, y_scaling_x : D.y_scaling_x,
     y_scaling_custom : D.y_scaling_custom]

\* a script run calls update_axes() with widgets w; the scaling series
\* selectbox can be drawn only for an index inside the list of series
UpdateAxesFrom(W) ==
    /\ Shown(config, post).y_scaling_series \in SeriesChoices(config)
    /\ \E w \in W :
        LET out == update_axes(config, post, w)
        IN  /\ config' = out.config
            /\ post' = out.post
            /\ state' = w
            /\ reports' = out.reports
            /\ handler' = "update_axes"

\* the user picks the x-axis column and its type
UpdateAxesX ==
    UpdateAxesFrom(Widgets([Fixed(Shown(config, post)) EXCEPT
                              !.x_column = Cols \cup {None}, !.x_type = InputTypes]))

\* the user picks the y-axis column and its type
UpdateAxesY ==
    UpdateAxesFrom(Widgets([Fixed(Shown(config, post)) EXCEPT
                              !.y_column = Cols \cup {None}, !.y_type = InputTypes]))

\* the user edits the units of the x-axis
UpdateAxesXUnits ==
    UpdateAxesFrom(Widgets([Fixed(Shown(config, post)) EXCEPT
                              !.x_units_column = UnitsColumns,
                              !.x_units_custom = InputUnits]))

\* the user edits the units of the y-axis
UpdateAxesYUnits ==
    UpdateAxesFrom(Widgets([Fixed(Shown(config, post)) EXCEPT
                              !.y_units_column = UnitsColumns,
                              !.y_units_custom = InputUnits]))

\* the user edits the scaling of the y-axis
UpdateAxesScaling ==
    UpdateAxesFrom(Widgets([Fixed(Shown(config, post)) EXCEPT
                              !.y_scaling_column = ScalingColumns,
                              !.y_scaling_type = InputTypes,
                              !.y_scaling_series = SeriesChoices(config),
                              !.y_scaling_x = XChoices(config, post),
                              !.y_scaling_custom = InputScales]))

Clauses(c) == Len(c.filters["and"]) + Len(c.filters["or"]) + Len(c.series)

\* the user presses "Add Filter", the widgets of new_filter_options
\* holding a filter type of K, a column type of T, a column of C and a
\* custom value of V
AddFilterFrom(K, T, C, V) ==
    /\ Clauses(config) < MaxClauses
    /\ \E key \in K, ftype \in T, col \in C, op \in InputOps, val \in V :
        LET out == add_filter(config, post, key, ftype, col,
                              IF key = "series" THEN "==" ELSE op, "object", val)
        IN  /\ config' = out.config
            /\ post' = out.post
            /\ reports' = out.reports
            /\ handler' = "add_filter"
            /\ UNCHANGED state

AddFilter == AddFilterFrom(Range(filter_types), InputTypes, Cols, InputTexts \cup {None})

\* the user deselects one clause of a multiselect
UpdateFilter ==
    \E key \in Range(filter_types) :
      \E i \in 1..Len(ListOf(config, key)) :
        LET L == ListOf(config, key)
            out == update_filter(config, post, <<>>, key,
                                 SubSeq(L, 1, i - 1) \o SubSeq(L, i + 1, Len(L)))
        IN  /\ config' = out.config
            /\ post' = out.post
            /\ reports' = out.reports
            /\ handler' = "update_filter"
            /\ UNCHANGED state

\* the user presses "Add Extra Column"
AddExtraColumn ==
    \E col \in Cols :
        LET out == add_extra_column(config, post, col)
        IN  /\ config' = out.config
            /\ post' = out.post
            /\ reports' = out.reports
            /\ handler' = "add_extra_column"
            /\ UNCHANGED state

\* the user deselects one extra column
UpdateExtraColumn ==
    \E i \in 1..Len(config.extra_columns) :
        LET L == config.extra_columns
            out == update_extra_column(config, post,
                                       SubSeq(L, 1, i - 1) \o SubSeq(L, i + 1, Len(L)))
        IN  /\ config' = out.config
            /\ post' = out.post
            /\ reports' = out.reports
            /\ handler' = "update_extra_column"
            /\ UNCHANGED state

\* the user presses "Generate Graph"
RerunPostProcessing ==
    LET out == rerun_post_processing(config, post)
    IN  /\ config' = out.config
        /\ post' = out.post
        /\ reports' = out.reports
        /\ handler' = "rerun_post_processing"
        /\ UNCHANGED state

\* the user presses "Download Config"
ValidateDownloadConfig ==
    LET out == validate_download_config(config, post)
    IN  /\ config' = out.config
        /\ post' = out.post
        /\ reports' = out.reports
        /\ handler' = "validate_download_config"
        /\ UNCHANGED state

\* main() without a config path: the template document and the loaded logs
InitPost ==
    [df |-> LoadedDf, original_df |-> LoadedDf, plot |-> None,
     mask |-> [r \in Rows |-> TRUE], scale |-> None]

Init ==
    /\ config = from_template
    /\ post = InitPost
    /\ state = Shown(from_template, InitPost)
    /\ reports = <<>>
    /\ handler = "main"

\* every handler, with everything the user can enter
Next ==
    \/ UpdateAxesX
    \/ UpdateAxesY
    \/ UpdateAxesXUnits
    \/ UpdateAxesYUnits
    \/ UpdateAxesScaling
    \/ AddFilter
    \/ UpdateFilter
    \/ AddExtraColumn
    \/ UpdateExtraColumn
    \/ RerunPostProcessing
    \/ ValidateDownloadConfig

Spec == Init /\ [][Next]_vars

\* the filter handlers alone
NextFilters == AddFilter \/ UpdateFilter

SpecFilters == Init /\ [][NextFilters]_vars

\* update_axes alone
NextAxes ==
    \/ UpdateAxesX
    \/ UpdateAxesY
    \/ UpdateAxesXUnits
    \/ UpdateAxesYUnits
    \/ UpdateAxesScaling

SpecAxes == Init /\ [][NextAxes]_vars

\* the edit handlers, the axis widgets and the new-filter widgets taking
\* few values: an x-axis column, a y-axis units column, a scaling column,
\* and the one filter value "x" on column "a"
UpdateAxesRefs ==
    UpdateAxesFrom(Widgets([Fixed(Shown(config, post)) EXCEPT
                              !.x_column = Cols \cup {None}, !.x_type = {"str"},
                              !.y_units_column = UnitsColumns,
                              !.y_scaling_column = ScalingColumns,
                              !.y_scaling_type = {"float"}]))

AddFilterX == AddFilterFrom(Range(filter_types), {"str"}, {"a"}, {"x"})

NextEdit ==
    \/ UpdateAxesRefs
    \/ AddFilterX
    \/ UpdateFilter
    \/ AddExtraColumn
    \/ UpdateExtraColumn

SpecEdit == Init /\ [][NextEdit]_vars

\* the handlers that validate and run, after edits of the axis columns, of
\* the scaling column and of one AND filter
UpdateAxesRun ==
    UpdateAxesFrom(Widgets([Fixed(Shown(config, post)) EXCEPT
                              !.x_column = Cols \cup {None}, !.x_type = InputTypes,
                              !.y_column = {None, "b"}, !.y_type = {"str"},
                              !.y_scaling_column = ScalingColumns,
                              !.y_scaling_type = {"float"}]))

AddFilterAndX == AddFilterFrom({"and"}, {"str"}, {"a"}, {"x"})

NextRun ==
    \/ UpdateAxesRun
    \/ AddFilterAndX
    \/ UpdateFilter
    \/ RerunPostProcessing
    \/ ValidateDownloadConfig

SpecRun == Init /\ [][NextRun]_vars

\* the filter handlers with every operator of the operator selectbox, for
\* the value "1" on column "a"
AddFilterOps ==
    /\ Clauses(config) < MaxClauses
    /\ \E key \in Range(filter_types), ftype \in InputTypes, op \in Range(operators) :
        LET out == add_filter(config, post, key, ftype, "a",
                              IF key = "series" THEN "==" ELSE op, "object", "1")
        IN  /\ config' = out.config
            /\ post' = out.post
            /\ reports' = out.reports
            /\ handler' = "add_filter"
            /\ UNCHANGED state

NextShapes == AddFilterOps \/ UpdateFilter

SpecShapes == Init /\ [][NextShapes]_vars

\* the series list and the scaling that refers to it: the user adds and
\* removes series on column "a" and picks a scaling column and a scaling
\* series
AddFilterSeries == AddFilterFrom({"series"}, {"str"}, {"a"}, InputTexts)

UpdateAxesSeries ==
    UpdateAxesFrom(Widgets([Fixed(Shown(config, post)) EXCEPT
                              !.y_scaling_column = ScalingColumns,
                              !.y_scaling_series = SeriesChoices(config)]))

NextSeries ==
    \/ AddFilterSeries
    \/ UpdateFilter
    \/ UpdateAxesSeries

SpecSeries == Init /\ [][NextSeries]_vars

\* the session from its first script run: the script runs from the top
\* (main, then update_ui down to its reading of the session's post and
\* config), goes on to axis_options, whose widgets show the document, and
\* waits for the user, whose next step is a callback and a new script run
Start ==
    /\ config = Unset
    /\ post = Unset
    /\ state = Shown(from_template, InitPost)
    /\ reports = <<>>
    /\ handler = "start"

Main ==
    /\ handler # "main"
    /\ \E f \in Files \cup {None} :
        LET m == main(f, InitPost)
            out == update_ui(config, post, m.post, m.config, m.err)
        IN  /\ config' = out.config
            /\ post' = out.post
            /\ reports' = out.reports
            /\ handler' = "main"
            /\ UNCHANGED state

UpdateAxesShown ==
    /\ handler = "main"
    /\ UpdateAxesFrom({Shown(config, post)})

\* the user uploads a config file, or takes the uploaded file away
UploadConfig ==
    /\ handler = "update_axes"
    /\ \E u \in Files \cup {None} :
        LET out == update_config(config, post, u)
        IN  /\ config' = out.config
            /\ post' = out.post
            /\ reports' = out.reports
            /\ handler' = "update_config"
            /\ UNCHANGED state

AddFilterTyped ==
    /\ handler = "update_axes"
    /\ AddFilterFrom({"and"}, InputTypes, {"a"}, {"x", None})

GenerateGraph ==
    /\ handler = "update_axes"
    /\ RerunPostProcessing

DownloadConfig ==
    /\ handler = "update_axes"
    /\ ValidateDownloadConfig

NextSession ==
    \/ Main
    \/ UpdateAxesShown
    \/ UploadConfig
    \/ AddFilterTyped
    \/ GenerateGraph
    \/ DownloadConfig

SpecSession == Start /\ [][NextSession]_vars

\* ---------------------------------------------------------------------
\* Properties of add_filter
\* ---------------------------------------------------------------------
Reported(r) == r \in Range(reports)
ReportedNext(r) == r \in Range(reports')

Lists(c) == <<c.filters["and"], c.filters["or"], c.series>>

\* C1: when the re-casting loop of add_filter raises, the filter lists are,
\* clause by clause and value by value, what they were before the add.
C1_RollbackRestoresLists ==
    [][(handler' = "add_filter" /\ ReportedNext(Exception(514)))
          => Lists(config') = Lists(config)]_vars

\* the kind of list add_filter has just appended to, if any
Grown(key) == Len(ListOf(config', key)) = Len(ListOf(config, key)) + 1

NewColumn(key) == ListOf(config', key)[Len(ListOf(config', key))][1]

Value(f) == f[Len(f)]

\* C2: after add_filter has added a clause on a column, every clause that
\* was already on that column, in any of the three lists, holds its old
\* value re-cast to the column's declared type.
C2_RetypingCoversAllLists ==
    [][\A key \in Range(filter_types) :
          (handler' = "add_filter" /\ Grown(key)) =>
             \A other \in Range(filter_types) :
               \A i \in 1..Len(ListOf(config, other)) :
                  ListOf(config, other)[i][1] = NewColumn(key) =>
                     Value(ListOf(config', other)[i]) =
                        Cast("object", Value(ListOf(config, other)[i]),
                             dtype_lookup[config'.column_types[NewColumn(key)]])]_vars

C4_FailedCastNotApplied ==
    [][(handler' = "add_filter" /\ ReportedNext(Exception(486)))
          => /\ Lists(config') = Lists(config)
             /\ config'.column_types = config.column_types]_vars

\* ---------------------------------------------------------------------
\* Properties of update_axes
\* ---------------------------------------------------------------------
Filled(v) == ~Blank(v)

\* C5: the scaling of the y-axis holds one of custom and column, never
\* both; a custom scaling value entered while a column spec is set leaves
\* only custom, and a scaling column picked with no custom value while
\* custom is set leaves only the column spec.
C5_ScalingExclusive ==
    /\ [](Cardinality(DOMAIN config.y_axis.scaling) = 1)
    /\ [][(handler' = "update_axes" /\ "column" \in DOMAIN config.y_axis.scaling
              /\ Filled(state'.y_scaling_custom))
            => config'.y_axis.scaling = [custom |-> state'.y_scaling_custom]]_vars
    /\ [][(handler' = "update_axes" /\ Filled(Get(config.y_axis.scaling, "custom"))
              /\ Blank(state'.y_scaling_custom) /\ state'.y_scaling_column # None)
            => /\ DOMAIN config'.y_axis.scaling = {"column"}
               /\ config'.y_axis.scaling["column"].name = state'.y_scaling_column]_vars

C5_Witness ==
    /\ handler = "update_axes"
    /\ state.y_scaling_column # None
    /\ Filled(state.y_scaling_custom)
    /\ config.y_axis.scaling = [custom |-> state.y_scaling_custom]

\* C6: the units of each axis hold exactly one of custom and column; when
\* update_axes reads both a custom units string and a units column, the
\* custom string is kept and the column is not.
C6_UnitsExclusive ==
    /\ Cardinality(DOMAIN config.x_axis.units) = 1
    /\ Cardinality(DOMAIN config.y_axis.units) = 1
    /\ handler = "update_axes" =>
          /\ (Filled(state.x_units_custom) /\ state.x_units_column # None)
                => config.x_axis.units = [custom |-> state.x_units_custom]
          /\ (Filled(state.y_units_custom) /\ state.y_units_column # None)
                => config.y_axis.units = [custom |-> state.y_units_custom]

C6_Witness ==
    /\ handler = "update_axes"
    /\ Filled(state.y_units_custom)
    /\ state.y_units_column # None
    /\ config.y_axis.units = [custom |-> state.y_units_custom]

\* ---------------------------------------------------------------------
\* Properties of column_types
\* ---------------------------------------------------------------------
\* the columns the document refers to
References(c) ==
    ({c.x_axis.value, c.y_axis.value,
      Get(c.x_axis.units, "column"), Get(c.y_axis.units, "column")}
     \cup (IF "column" \in DOMAIN c.y_axis.scaling
           THEN {c.y_axis.scaling["column"].name} ELSE {})
     \cup {f[1] : f \in Range(c.filters["and"]) \cup Range(c.filters["or"]) \cup Range(c.series)}
     \cup Range(c.extra_columns)) \ {None}

EditHandlers ==
    {"update_axes", "update_filter", "add_filter", "add_extra_column", "update_extra_column"}

\* C7: when an edit handler has returned, column_types has an entry for
\* every column an axis value, a units column, a scaling column, a filter
\* or series clause or an extra column refers to.
C7_TypesCoverReferences ==
    handler \in EditHandlers => References(config) \subseteq DOMAIN config.column_types

C7_Witness ==
    /\ handler = "add_extra_column"
    /\ config.extra_columns # <<>>
    /\ Get(config.y_axis.units, "column") # None
    /\ "column" \in DOMAIN config.y_axis.scaling
    /\ Clauses(config) > 0

\* C8: when update_axes, update_filter or update_extra_column has
\* returned, column_types has the columns the document refers to as its
\* keys and no others: a column that lost its last reference is gone, a
\* column that is still referred to is kept.
C8_TypesAreReferences ==
    handler \in {"update_axes", "update_filter", "update_extra_column"}
        => DOMAIN config.column_types = References(config)

\* ---------------------------------------------------------------------
\* Properties of rerun_post_processing
\* ---------------------------------------------------------------------
\* C9: when the run of rerun_post_processing fails after the config has
\* validated, the dataset is what it was before the handler was called.
C9_FailedRunRestoresDataset ==
    [][(handler' = "rerun_post_processing" /\ read_config(config)
           /\ ReportedNext(Exception(607)))
          => post'.df = post.df]_vars

\* C10: when the config does not validate, rerun_post_processing neither
\* resets nor coerces the dataset and does not run: of post only the plot
\* changes, which is dropped.
C10_InvalidConfigKeepsDataset ==
    [][(handler' = "rerun_post_processing" /\ ~read_config(config))
          => /\ post'.df = post.df
             /\ post' = [post EXCEPT !.plot = None]
             /\ reports' = <<Exception(607)>>]_vars

C10_Witness ==
    /\ handler = "rerun_post_processing"
    /\ ~read_config(config)
    /\ reports = <<Exception(607)>>
    /\ post.df # post.original_df

\* C11: the original dataset is never changed; a run that succeeds leaves
\* the dataset, the mask and the scale that the config gives from the
\* original dataset, whatever was edited or run before; and a run that
\* follows a run, the config being the same, leaves the dataset, the mask
\* and the scale of the first.
C11_RunIdempotent ==
    /\ [][post'.original_df = post.original_df]_vars
    /\ [][(handler' = "rerun_post_processing" /\ reports' = <<>>)
            => LET typed == apply_df_types(post.original_df, config.all_columns,
                                           config.column_types)
               IN  /\ post'.df = typed.df
                   /\ post'.mask = FilterMask(typed.df, config)
                   /\ post'.scale = resolve(typed.df, post'.mask, config)]_vars
    /\ [][(handler = "rerun_post_processing" /\ handler' = "rerun_post_processing")
            => /\ post'.df = post.df
               /\ post'.mask = post.mask
               /\ post'.scale = post.scale]_vars

C11_Witness ==
    /\ handler = "rerun_post_processing"
    /\ reports = <<>>
    /\ post.plot # None
    /\ post.df # post.original_df

\* ---------------------------------------------------------------------
\* Properties of the session
\* ---------------------------------------------------------------------
ErrorHandlers ==
    {"update_config", "update_axes", "update_filter", "add_filter",
     "rerun_post_processing", "validate_download_config"}

\* C12: when update_config, update_types (called by update_axes and
\* update_filter), add_filter, rerun_post_processing or
\* validate_download_config has reported an exception or a validation
\* error, the plot is None when the handler returns.
C12_ErrorDropsPlot ==
    (handler \in ErrorHandlers
       /\ \E r \in Range(reports) : r.st = "exception" \/ r = Warning(621))
        => post.plot = None

\* C13: when the document uploaded to update_config cannot be loaded or
\* does not validate, the session's config and dataset are what they were
\* before the upload.
C13_InvalidUploadKeepsState ==
    [][(handler' = "update_config"
          /\ \E e \in {"load_config", "ConfigHandler", "read_config"} :
                ReportedNext(Raised(120, e)))
         => config' = config /\ post'.df = post.df]_vars

\* the error main keeps for update_ui when the file f does not load or
\* does not run, and the config it then shows
OriginalError(f) ==
    IF from_path(f, FALSE).ok THEN "run_post_processing" ELSE from_path(f, FALSE).e

Fallback(f) ==
    IF from_path(f, TRUE).ok THEN from_path(f, TRUE).config ELSE from_template

Runs(f) ==
    from_path(f, FALSE).ok /\ run_post_processing(InitPost, from_path(f, FALSE).config).ok

\* C14: at the first script run the UI is given a post and a config; the
\* post has been through run_post_processing only with a config that
\* loaded from the path without error; when the load or the run failed,
\* the config is the template filled from the document, or the empty
\* template when that fails too, and the error shown is the first one.
C14_StartupFallback ==
    [][(handler' = "main" /\ post = Unset)
         => /\ post' # Unset
            /\ config' # Unset
            /\ post' # InitPost
                  => \E f \in Files :
                        /\ from_path(f, FALSE).ok
                        /\ post' = run_post_processing(InitPost,
                                                       from_path(f, FALSE).config).post
            /\ reports' # <<>>
                  => \E f \in Files :
                        /\ ~Runs(f)
                        /\ reports' = <<Raised(42, OriginalError(f))>>
                        /\ config' = Fallback(f)
            /\ reports' = <<>>
                  => \/ config' = from_template /\ post' = InitPost
                     \/ \E f \in Files :
                           /\ Runs(f)
                           /\ config' = from_path(f, FALSE).config
                           /\ post'.plot # None]_vars

C14_Witness ==
    /\ handler = "main"
    /\ reports = <<Raised(42, "read_config")>>
    /\ config = Fallback("invalid.yaml")
    /\ config # from_template
    /\ post = InitPost

AllClauses(c) == Range(c.filters["and"]) \cup Range(c.filters["or"]) \cup Range(c.series)

\* C15: when add_filter or update_filter has returned, the value of every
\* clause is the string that casting it through the declared type of its
\* column gives.
C15_ValuesCanonical ==
    handler \in {"add_filter", "update_filter"}
        => \A f \in AllClauses(config) :
              /\ f[1] \in DOMAIN config.column_types
              /\ Cast("object", Value(f), dtype_lookup[config.column_types[f[1]]]) = Value(f)

\* C16: every clause of the and/or lists is a triple (column, operator,
\* value) with one of the six operators, every clause of the series list
\* a pair (column, value).
C16_ClauseShape ==
    /\ \A f \in Range(config.filters["and"]) \cup Range(config.filters["or"]) :
          Len(f) = 3 /\ f[2] \in Range(operators)
    /\ \A f \in Range(config.series) : Len(f) = 2

C16_Witness ==
    /\ handler = "add_filter"
    /\ config.series # <<>>
    /\ \E f \in Range(config.filters["and"]) : f[2] = ">="

\* C18: add_filter called without a filter value warns and leaves the
\* filter lists, column_types, the dataset and the plot as they were.
C18_MissingValueRefused ==
    [][(handler' = "add_filter" /\ ReportedNext(Warning(527)))
          => /\ config' = config
             /\ post' = post
             /\ reports' = <<Warning(527)>>]_vars

C18_Witness == handler = "add_filter" /\ reports = <<Warning(527)>> /\ Clauses(config) > 0

NoRepeat(L) == Len(L) = Cardinality(Range(L))

\* C19: when add_extra_column or update_extra_column has returned, no
\* column is more than once in plot_columns + extra_columns.
C19_PlotAndExtraDisjoint ==
    handler \in {"add_extra_column", "update_extra_column"}
        => NoRepeat(config.plot_columns \o config.extra_columns)

\* C20: an add_filter that succeeds on filter lists without identical
\* clauses leaves each of the three lists without identical clauses.
C20_ListsDuplicateFree ==
    [][(handler' = "add_filter" /\ reports' = <<>>
          /\ \A key \in Range(filter_types) : NoRepeat(ListOf(config, key)))
         => \A key \in Range(filter_types) : NoRepeat(ListOf(config', key))]_vars

\* ---------------------------------------------------------------------
\* Properties of the axis types and of the scaling spec
\* ---------------------------------------------------------------------
\* C21: when update_axes has returned, the declared type of the x-axis
\* column is the x-axis type that was selected and the declared type of
\* the y-axis column is the y-axis type that was selected.
C21_AxisTypesAsSelected ==
    handler = "update_axes"
        => /\ state.x_column # None
                 => Get(config.column_types, state.x_column) = state.x_type
           /\ state.y_column # None
                 => Get(config.column_types, state.y_column) = state.y_type

\* C22: a series index held by the scaling spec is an index of the list of
\* series filters, and when update_axes has returned it is the index of
\* the series that was selected.
C22_SeriesIndexInBounds ==
    ("column" \in DOMAIN config.y_axis.scaling
       /\ config.y_axis.scaling["column"].series # NoSeries)
        => /\ config.y_axis.scaling["column"].series + 1 \in 1..Len(config.series_filters)
           /\ handler = "update_axes"
                 => config.series_filters[config.y_axis.scaling["column"].series + 1]
                      = config.series_filters[state.y_scaling_series + 1]

\* C23: when update_axes has written a column scaling with no scaling
\* x-axis value selected, the x_value of the spec is None.
C23_NoXValueIsNone ==
    (handler = "update_axes" /\ "column" \in DOMAIN config.y_axis.scaling
       /\ state.y_scaling_x = None)
        => config.y_axis.scaling["column"].x_value = None

====
